---- MODULE Spec2Model ----
(***************************************************************************)
(* A model of src/src/wyvern.ts (opensea-js): the transaction confirmation *)
(* tracker (txCallbacks, track, confirmTransaction), the current-price     *)
(* estimator, the dual-layout signature parser and the asset ownership     *)
(* lookup.                                                                 *)
(*                                                                         *)
(* JavaScript values that may be null/undefined are modelled as sequences  *)
(* of length 0 (absent) or 1 (present): <<>> is null, <<x>> is x.          *)
(* JavaScript strings that the code inspects character by character are    *)
(* modelled as sequences of one-character strings.                         *)
(***************************************************************************)
EXTENDS Integers, Sequences, FiniteSets, TLC

VARIABLES
    \* ---- transaction confirmation tracker ----
    txCallbacks,   \* wyvern.ts:17  the process-wide map txHash -> TxnCallback[]
    pollers,       \* for each hash, how many poll() loops are at each suspension point
    promise,       \* state of the promise of each confirmTransaction call
    notified,      \* history: how many times each callback has been invoked
    lastPass,      \* history: the calls of the latest notification pass
    reg,           \* history: the hash each callback was registered for, and where
                   \*          the hash's poller stood at that moment
    txSeen,        \* history: last getTransaction reply delivered to the hash's poller
    chain,         \* the node's view of each transaction
    nextCb,        \* identity of the next confirmTransaction call
    \* ---- current-price estimator ----
    order,         \* the Order handed to estimateCurrentPrice
    estimate,      \* the latest call of estimateCurrentPrice and what it returned
    \* ---- signature parser ----
    signing,       \* a personalSignAsync call: the client's reply and the parse
    \* ---- asset ownership lookup ----
    lookup         \* a findAsset call: its arguments, locals and outcome

trackerVars == <<txCallbacks, pollers, promise, notified, lastPass, reg, txSeen, chain, nextCb>>

priceVars == <<order, estimate>>

nonTracker == <<priceVars, signing, lookup>>

vars == <<trackerVars, priceVars, signing, lookup>>

-----------------------------------------------------------------------------
(* Bounds of the model *)

NumHashes == 2
MaxCallbacks == 2

Hashes == 1..NumHashes
CallbackIds == 1..MaxCallbacks

-----------------------------------------------------------------------------
(* Values exchanged with the chain client *)

NULL_BLOCK_HASH == "0x0000000000000000000000000000000000000000000000000000000000000000"

MinedBlockHash == "0x00000000000000000000000000000000000000000000000000000000000b10c5"

\* Web3.Transaction | null, as returned by web3.eth.getTransaction
NoTx == <<>>
TxWith(blockHash) == <<[blockHash |-> blockHash]>>

\* What the node answers to getTransaction while the transaction is in the
\* given state: in no block yet (unknown to the node, or known with a null or
\* an all-zero block hash), or in a block.
TxAnswers(st) ==
    CASE st = "pending" -> {NoTx, TxWith(<<>>), TxWith(<<NULL_BLOCK_HASH>>)}
      [] st = "mined"   -> {TxWith(<<MinedBlockHash>>)}

\* receipt.status: null, a number, or a string (Web3.TransactionReceipt)
StatusNull == [t |-> "null", n |-> 0, s |-> <<>>]
StatusNum(k) == [t |-> "num", n |-> k, s |-> <<>>]
StatusStr(str) == [t |-> "str", n |-> 0, s |-> str]

StatusValues ==
    {StatusNull, StatusNum(0), StatusNum(1), StatusNum(2),
     StatusStr(<<"0","x","0">>), StatusStr(<<"0","x","1">>)}

NoReceipt == <<>>
ReceiptWith(status) == <<[status |-> status]>>
ReceiptAnswers == {NoReceipt} \cup {ReceiptWith(st) : st \in StatusValues}

-----------------------------------------------------------------------------
(* receipt.status -> boolean, wyvern.ts:48-50 *)

DecDigits == <<"0","1","2","3","4","5","6","7","8","9">>
HexDigits == <<"0","1","2","3","4","5","6","7","8","9","a","b","c","d","e","f">>

\* value of the character ch as a digit in the given radix, or -1
DigitValue(ch, radix) ==
    LET hits == {i \in 1..radix : HexDigits[i] = ch}
    IN  IF hits = {} THEN 0 - 1 ELSE (CHOOSE i \in hits : TRUE) - 1

\* Number.prototype.toString for a non-negative integer
RECURSIVE NumToString(_)
NumToString(k) ==
    IF k < 10 THEN <<DecDigits[k + 1]>>
    ELSE Append(NumToString(k \div 10), DecDigits[(k % 10) + 1])

\* the longest prefix of str made of digits of the radix, as a number
RECURSIVE DigitsPrefix(_, _, _, _)
DigitsPrefix(str, radix, acc, seen) ==
    IF str = <<>> \/ DigitValue(Head(str), radix) < 0
    THEN [nan |-> ~seen, val |-> acc]
    ELSE DigitsPrefix(Tail(str), radix, acc * radix + DigitValue(Head(str), radix), TRUE)

\* parseInt(str) with no radix argument: a leading 0x selects radix 16
ParseInt(str) ==
    IF Len(str) >= 2 /\ str[1] = "0" /\ str[2] \in {"x", "X"}
    THEN DigitsPrefix(SubSeq(str, 3, Len(str)), 16, 0, FALSE)
    ELSE DigitsPrefix(str, 10, 0, FALSE)

\* (receipt.status || "0").toString()
StatusString(status) ==
    CASE status.t = "null" -> <<"0">>
      [] status.t = "num"  -> IF status.n = 0 THEN <<"0">> ELSE NumToString(status.n)
      [] status.t = "str"  -> IF status.s = <<>> THEN <<"0">> ELSE status.s

MutReceiptStatusStrict(receipt) ==
    /\ receipt # NoReceipt
    /\ LET p == ParseInt(StatusString(receipt[1].status))
       IN  ~p.nan /\ p.val = 1

\* const status = receipt ? parseInt((receipt.status || "0").toString()) == 1 : true
ReceiptStatus(receipt) ==
    IF receipt # NoReceipt
    THEN LET p == ParseInt(StatusString(receipt[1].status))
         IN  ~p.nan /\ p.val = 1
    ELSE TRUE

-----------------------------------------------------------------------------
(* promisify, wyvern.ts:24-33 *)

\* The promise made by promisify once the web3 callback has been called with
\* (err, res): reject(err) when err is set, and the resolve(res) that follows
\* has no effect on a promise already rejected.
Promisify(err, res) ==
    IF err THEN [settled |-> "rejected", value |-> <<>>]
    ELSE [settled |-> "resolved", value |-> res]

-----------------------------------------------------------------------------
(* track, wyvern.ts:35-59 *)

PollPcs == {"getTransaction", "getTransactionReceipt", "timer"}

MutTrackedNever(cbs, txHash) == FALSE

\* if (txCallbacks[txHash])
Tracked(cbs, txHash) == txHash \in DOMAIN cbs

MutPushReplaces(cbs, txHash, onFinalized) ==
    [h \in DOMAIN cbs |-> IF h = txHash THEN <<onFinalized>> ELSE cbs[h]]

\* txCallbacks[txHash].push(onFinalized)
Push(cbs, txHash, onFinalized) ==
    [h \in DOMAIN cbs |-> IF h = txHash THEN Append(cbs[h], onFinalized) ELSE cbs[h]]

\* txCallbacks[txHash] = [onFinalized]
Insert(cbs, txHash, onFinalized) ==
    [h \in DOMAIN cbs \cup {txHash} |-> IF h = txHash THEN <<onFinalized>> ELSE cbs[h]]

\* delete txCallbacks[txHash]
Delete(cbs, txHash) == [h \in DOMAIN cbs \ {txHash} |-> cbs[h]]

MutIncludedIfPresent(tx) == tx # NoTx

\* tx && tx.blockHash && tx.blockHash !== NULL_BLOCK_HASH
Included(tx) ==
    /\ tx # NoTx
    /\ tx[1].blockHash # <<>>
    /\ tx[1].blockHash[1] # ""
    /\ tx[1].blockHash[1] # NULL_BLOCK_HASH

RECURSIVE Reverse(_)
Reverse(s) == IF s = <<>> THEN <<>> ELSE Append(Reverse(Tail(s)), Head(s))

MutNotifyReversed(list, status) ==
    [i \in 1..Len(list) |-> [cb |-> Reverse(list)[i], status |-> status]]

\* txCallbacks[txHash].map(f => f(status)): the calls made, in order
Notify(list, status) ==
    [i \in 1..Len(list) |-> [cb |-> list[i], status |-> status]]

\* history: the invocation counts after the calls have been made
RECURSIVE Count(_, _)
Count(n, calls) ==
    IF calls = <<>> THEN n
    ELSE Count([n EXCEPT ![Head(calls).cb] = @ + 1], Tail(calls))

\* the callback confirmTransaction hands to track (wyvern.ts:63-69), applied
\* to the promise state p: a settled promise ignores resolve and reject
Settle(p, didSucceed) ==
    IF p # "pending" THEN p
    ELSE IF didSucceed THEN "resolved" ELSE "rejected"

\* the promise states after the calls have been made, one after the other
RECURSIVE SettleAll(_, _)
SettleAll(pr, calls) ==
    IF calls = <<>> THEN pr
    ELSE SettleAll([pr EXCEPT ![Head(calls).cb] = Settle(@, Head(calls).status)],
                   Tail(calls))

\* where the poller of a hash stands, for the history variable reg
PollerAt(h) ==
    IF \A pc \in PollPcs : pollers[h][pc] = 0 THEN "none"
    ELSE CHOOSE pc \in PollPcs : pollers[h][pc] > 0

Live(h) == \E pc \in PollPcs : pollers[h][pc] > 0
NumPollers(h) ==
    pollers[h]["getTransaction"] + pollers[h]["getTransactionReceipt"]
        + pollers[h]["timer"]

Move(h, from, to) ==
    pollers' = [pollers EXCEPT ![h] =
                   [pc \in PollPcs |->
                       CASE pc = from /\ pc = to -> @[pc]
                         [] pc = from -> @[pc] - 1
                         [] pc = to   -> @[pc] + 1
                         [] OTHER     -> @[pc]]]

Stop(h, from) ==
    pollers' = [pollers EXCEPT ![h][from] = @ - 1]

\* confirmTransaction(web3, txHash): a new promise whose callback is handed to
\* track; track either appends it or creates the list and calls poll(), which
\* issues web3.eth.getTransaction before returning.
ConfirmTransaction(txHash) ==
    /\ nextCb <= MaxCallbacks
    /\ promise' = [promise EXCEPT ![nextCb] = "pending"]
    /\ nextCb' = nextCb + 1
    /\ reg' = [reg EXCEPT ![nextCb] =
                  [hash |-> txHash, at |-> PollerAt(txHash)]]
    /\ IF Tracked(txCallbacks, txHash)
       THEN /\ txCallbacks' = Push(txCallbacks, txHash, nextCb)
            /\ UNCHANGED <<pollers, txSeen>>
       ELSE /\ txCallbacks' = Insert(txCallbacks, txHash, nextCb)
            /\ pollers' = [pollers EXCEPT ![txHash]["getTransaction"] = @ + 1]
            /\ txSeen' = [txSeen EXCEPT ![txHash] = <<>>]
    /\ UNCHANGED <<notified, lastPass, chain>>
    /\ UNCHANGED nonTracker

\* the getTransaction callback is called with (null, tx): poll resumes
\* after its first await (wyvern.ts:42-55)
TxReply(txHash, tx) ==
    /\ pollers[txHash]["getTransaction"] > 0
    /\ tx \in TxAnswers(chain[txHash])
    /\ Promisify(FALSE, tx).settled = "resolved"
    /\ txSeen' = [txSeen EXCEPT ![txHash] = <<tx>>]
    /\ IF Included(Promisify(FALSE, tx).value)
       THEN Move(txHash, "getTransaction", "getTransactionReceipt")
       ELSE Move(txHash, "getTransaction", "timer")
    /\ UNCHANGED <<txCallbacks, promise, notified, lastPass, reg, chain, nextCb>>
    /\ UNCHANGED nonTracker

\* the getTransaction callback is called with an error: the await throws,
\* poll() rejects and poll().catch() installs no handler (wyvern.ts:41, 57)
TxError(txHash) ==
    /\ pollers[txHash]["getTransaction"] > 0
    /\ Promisify(TRUE, NoTx).settled = "rejected"
    /\ Stop(txHash, "getTransaction")
    /\ UNCHANGED <<txCallbacks, promise, notified, lastPass, reg, txSeen, chain, nextCb>>
    /\ UNCHANGED nonTracker

\* the getTransactionReceipt callback is called with (null, receipt): poll
\* resumes after its second await and runs to its end (wyvern.ts:44-52).
\* Without an entry for the hash, txCallbacks[txHash].map throws.
ReceiptReply(txHash, receipt) ==
    /\ pollers[txHash]["getTransactionReceipt"] > 0
    /\ receipt \in ReceiptAnswers
    /\ Promisify(FALSE, receipt).settled = "resolved"
    /\ Stop(txHash, "getTransactionReceipt")
    /\ IF txHash \in DOMAIN txCallbacks
       THEN LET status == ReceiptStatus(receipt)
                calls  == Notify(txCallbacks[txHash], status)
            IN  /\ notified' = Count(notified, calls)
                /\ lastPass' = [hash |-> txHash, calls |-> calls, receipt |-> receipt]
                /\ promise' = SettleAll(promise, calls)
                /\ txCallbacks' = Delete(txCallbacks, txHash)
       ELSE UNCHANGED <<notified, lastPass, promise, txCallbacks>>
    /\ UNCHANGED <<reg, txSeen, chain, nextCb>>
    /\ UNCHANGED nonTracker

\* the getTransactionReceipt callback is called with an error (wyvern.ts:43, 57)
ReceiptError(txHash) ==
    /\ pollers[txHash]["getTransactionReceipt"] > 0
    /\ Promisify(TRUE, NoReceipt).settled = "rejected"
    /\ Stop(txHash, "getTransactionReceipt")
    /\ UNCHANGED <<txCallbacks, promise, notified, lastPass, reg, txSeen, chain, nextCb>>
    /\ UNCHANGED nonTracker

\* setTimeout(poll, 1000) fires: poll() issues getTransaction again
TimerFires(txHash) ==
    /\ pollers[txHash]["timer"] > 0
    /\ Move(txHash, "timer", "getTransaction")
    /\ UNCHANGED <<txCallbacks, promise, notified, lastPass, reg, txSeen, chain, nextCb>>
    /\ UNCHANGED nonTracker

\* the environment: the transaction is included in a block
Mine(txHash) ==
    /\ chain[txHash] = "pending"
    /\ chain' = [chain EXCEPT ![txHash] = "mined"]
    /\ UNCHANGED <<txCallbacks, pollers, promise, notified, lastPass, reg, txSeen, nextCb>>
    /\ UNCHANGED nonTracker

TrackerInit ==
    /\ txCallbacks = <<>>
    /\ pollers = [h \in Hashes |-> [pc \in PollPcs |-> 0]]
    /\ promise = [c \in CallbackIds |-> "none"]
    /\ notified = [c \in CallbackIds |-> 0]
    /\ lastPass = [hash |-> 0, calls |-> <<>>, receipt |-> NoReceipt]
    /\ reg = [c \in CallbackIds |-> [hash |-> 0, at |-> "none"]]
    /\ txSeen = [h \in Hashes |-> <<>>]
    /\ chain = [h \in Hashes |-> "pending"]
    /\ nextCb = 1

TrackerNext ==
    \/ \E h \in Hashes : ConfirmTransaction(h)
    \/ \E h \in Hashes : \E tx \in TxAnswers(chain[h]) : TxReply(h, tx)
    \/ \E h \in Hashes : TxError(h)
    \/ \E h \in Hashes : \E r \in ReceiptAnswers : ReceiptReply(h, r)
    \/ \E h \in Hashes : ReceiptError(h)
    \/ \E h \in Hashes : TimerFires(h)
    \/ \E h \in Hashes : Mine(h)

\* The same program with a chain client that never replies with an error, and
\* with the scheduling the runtime and the node provide: every pending reply
\* is eventually delivered, every armed timer eventually fires, and every
\* transaction is eventually mined.
TrackerNextReliable ==
    \/ \E h \in Hashes : ConfirmTransaction(h)
    \/ \E h \in Hashes : \E tx \in TxAnswers(chain[h]) : TxReply(h, tx)
    \/ \E h \in Hashes : \E r \in ReceiptAnswers : ReceiptReply(h, r)
    \/ \E h \in Hashes : TimerFires(h)
    \/ \E h \in Hashes : Mine(h)

Fairness ==
    \A h \in Hashes :
        /\ WF_vars(\E tx \in TxAnswers(chain[h]) : TxReply(h, tx))
        /\ WF_vars(\E r \in ReceiptAnswers : ReceiptReply(h, r))
        /\ WF_vars(TimerFires(h))
        /\ WF_vars(Mine(h))

-----------------------------------------------------------------------------
(* estimateCurrentPrice, wyvern.ts:379-405 *)

\* Bounds of the orders and of the clock
MaxPrice == 2
MaxTime == 3
MaxClock == 40

\* Date.now() / 1000 has CLOCK_DECIMALS decimal places (3 in JavaScript, whose
\* clock counts milliseconds) and BigNumber.dividedBy rounds its quotient
\* half up to DECIMAL_PLACES decimal places (20 in bignumber.js unless
\* configured).  The model keeps both mechanisms and scales both numbers
\* down, the quotient's places staying no fewer than the clock's.
CLOCK_DECIMALS == 1
DECIMAL_PLACES == 1

SECONDS_TO_BACKTRACK == 30

RECURSIVE Pow10(_)
Pow10(e) == IF e = 0 THEN 1 ELSE 10 * Pow10(e - 1)

Abs(x) == IF x < 0 THEN 0 - x ELSE x
Sign(x) == IF x < 0 THEN 0 - 1 ELSE 1
Max(a, b) == IF a >= b THEN a ELSE b

\* A BigNumber: the decimal number m / 10^e
BigNumber(n) == [m |-> n, e |-> 0]
Shifted(a, e) == a.m * Pow10(e - a.e)

BNPlus(a, b) ==
    LET e == Max(a.e, b.e) IN [m |-> Shifted(a, e) + Shifted(b, e), e |-> e]

BNMinus(a, b) ==
    LET e == Max(a.e, b.e) IN [m |-> Shifted(a, e) - Shifted(b, e), e |-> e]

BNTimes(a, b) == [m |-> a.m * b.m, e |-> a.e + b.e]

\* a / b (b # 0), rounded to DECIMAL_PLACES places, halves away from zero
BNDividedBy(a, b) ==
    LET num == a.m * Pow10(DECIMAL_PLACES + b.e)
        den == b.m * Pow10(a.e)
        mag == (2 * Abs(num) + Abs(den)) \div (2 * Abs(den))
    IN  [m |-> Sign(num) * Sign(den) * mag, e |-> DECIMAL_PLACES]

\* the smallest integer >= a
BNCeil(a) ==
    LET p == Pow10(a.e)
        q == Abs(a.m) \div p
        r == Abs(a.m) % p
    IN  IF a.m >= 0
        THEN BigNumber(IF r = 0 THEN q ELSE q + 1)
        ELSE BigNumber(0 - q)

\* new BigNumber(Date.now() / 1000).minus(secondsToBacktrack)
Now(dateNow, secondsToBacktrack) ==
    BNMinus([m |-> dateNow, e |-> CLOCK_DECIMALS], BigNumber(secondsToBacktrack))

\* extra.times(now.minus(listingTime)).dividedBy(expirationTime.minus(listingTime))
Diff(o, now) ==
    BNDividedBy(BNTimes(BigNumber(o.extra), BNMinus(now, BigNumber(o.listingTime))),
                BNMinus(BigNumber(o.expirationTime), BigNumber(o.listingTime)))

\* the value returned for the order o at the given Date.now()
EstimateCurrentPrice(o, dateNow, secondsToBacktrack, shouldRoundUp) ==
    LET now == Now(dateNow, secondsToBacktrack)
        basePrice == BigNumber(o.basePrice)
        exactPrice ==
            IF o.saleKind = "FixedPrice" THEN basePrice
            ELSE IF o.saleKind = "DutchAuction"
                 THEN IF o.side = "Sell"
                      THEN BNMinus(basePrice, Diff(o, now))
                      ELSE BNPlus(basePrice, Diff(o, now))
                 ELSE basePrice
    IN  IF shouldRoundUp THEN BNCeil(exactPrice) ELSE exactPrice

\* orders with non-negative integer fields and expirationTime > listingTime
Orders ==
    {o \in [basePrice : 0..MaxPrice, extra : 0..MaxPrice,
            listingTime : 0..MaxTime, expirationTime : 0..MaxTime,
            side : {"Buy", "Sell"}, saleKind : {"FixedPrice", "DutchAuction"}] :
        o.expirationTime > o.listingTime}

IdleOrder ==
    [basePrice |-> 0, extra |-> 0, listingTime |-> 0, expirationTime |-> 1,
     side |-> "Sell", saleKind |-> "FixedPrice"]

\* a call of estimateCurrentPrice(order, secondsToBacktrack, shouldRoundUp)
\* made when Date.now() is dateNow clock ticks
Estimate(dateNow, secondsToBacktrack, shouldRoundUp) ==
    /\ estimate = <<>>
    /\ estimate' = <<[dateNow |-> dateNow,
                      secondsToBacktrack |-> secondsToBacktrack,
                      shouldRoundUp |-> shouldRoundUp,
                      price |-> EstimateCurrentPrice(order, dateNow, secondsToBacktrack,
                                                     shouldRoundUp)]>>
    /\ UNCHANGED <<order, trackerVars, signing, lookup>>

PriceIdle == order = IdleOrder /\ estimate = <<>>

PriceInit == order \in Orders /\ estimate = <<>>

PriceNext ==
    \/ \E t \in 0..MaxClock : \E b \in {0, 1, SECONDS_TO_BACKTRACK} :
          \E up \in BOOLEAN : Estimate(t, b, up)

-----------------------------------------------------------------------------
(* parseSignatureHex and personalSignAsync, wyvern.ts:267-278, 325-370 *)

\* the lengths behind slice(1, 33) and slice(33, 65): r and s are 32 bytes
\* each and a signature is r, s and one byte of v
PART_LENGTH == 32
SIGNATURE_LENGTH == 65

UpperHexDigits == <<"0","1","2","3","4","5","6","7","8","9","A","B","C","D","E","F">>

\* value of a hexadecimal character of either case
HexVal(ch) ==
    IF \E i \in 1..16 : HexDigits[i] = ch
    THEN (CHOOSE i \in 1..16 : HexDigits[i] = ch) - 1
    ELSE (CHOOSE i \in 1..16 : UpperHexDigits[i] = ch) - 1

\* ethUtil.stripHexPrefix and ethUtil.padToEven
StripHexPrefix(str) ==
    IF Len(str) >= 2 /\ str[1] = "0" /\ str[2] = "x"
    THEN SubSeq(str, 3, Len(str)) ELSE str

PadToEven(str) == IF Len(str) % 2 = 1 THEN <<"0">> \o str ELSE str

\* ethUtil.toBuffer of a 0x-prefixed hexadecimal string: its bytes
ToBuffer(hex) ==
    LET digits == PadToEven(StripHexPrefix(hex))
    IN  [i \in 1..(Len(digits) \div 2) |->
            16 * HexVal(digits[2 * i - 1]) + HexVal(digits[2 * i])]

\* ethUtil.bufferToHex: 0x and two lower-case digits per byte
BufferToHex(buf) ==
    <<"0", "x">> \o
    [i \in 1..(2 * Len(buf)) |->
        LET byte == buf[(i + 1) \div 2]
        IN  IF i % 2 = 1 THEN HexDigits[(byte \div 16) + 1]
            ELSE HexDigits[(byte % 16) + 1]]

\* buffer.slice(from, to), counting from 0 and excluding to
Slice(buf, from, to) == SubSeq(buf, from + 1, to)

Parsed(v, r, s) == [error |-> "", v |-> v, r |-> r, s |-> s]
Thrown(message) == [error |-> message, v |-> 0, r |-> <<>>, s |-> <<>>]

\* _parseSignatureHexAsVRS, wyvern.ts:345-359
ParseSignatureHexAsVRS(signatureHex) ==
    LET signatureBuffer == ToBuffer(signatureHex)
        v0 == signatureBuffer[1]
        v == IF v0 < 27 THEN v0 + 27 ELSE v0
    IN  Parsed(v, BufferToHex(Slice(signatureBuffer, 1, PART_LENGTH + 1)),
                  BufferToHex(Slice(signatureBuffer, PART_LENGTH + 1, SIGNATURE_LENGTH)))

\* ethUtil.fromRpcSig followed by bufferToHex, wyvern.ts:361-369: the last
\* byte is v, raised by 27 when below 27; any other length is refused
ParseSignatureHexAsRSV(signatureHex) ==
    LET sig == ToBuffer(signatureHex)
        v0 == sig[SIGNATURE_LENGTH]
        v == IF v0 < 27 THEN v0 + 27 ELSE v0
    IN  IF Len(sig) # SIGNATURE_LENGTH THEN Thrown("Invalid signature length")
        ELSE Parsed(v, BufferToHex(Slice(sig, 0, PART_LENGTH)),
                       BufferToHex(Slice(sig, PART_LENGTH, 2 * PART_LENGTH)))

validVParamValues == {27, 28}

MutAcceptsVRSUnchecked(signature) ==
    LET ecSignatureRSV == ParseSignatureHexAsRSV(signature)
    IN  IF ecSignatureRSV.error # "" THEN ecSignatureRSV
        ELSE IF ecSignatureRSV.v \in validVParamValues THEN ecSignatureRSV
        ELSE ParseSignatureHexAsVRS(signature)

\* parseSignatureHex, wyvern.ts:325-343
ParseSignatureHex(signature) ==
    LET ecSignatureRSV == ParseSignatureHexAsRSV(signature)
        ecSignatureVRS == ParseSignatureHexAsVRS(signature)
    IN  IF ecSignatureRSV.error # "" THEN ecSignatureRSV
        ELSE IF ecSignatureRSV.v \in validVParamValues THEN ecSignatureRSV
        ELSE IF ecSignatureVRS.v \in validVParamValues THEN ecSignatureVRS
        ELSE Thrown("Invalid signature")

\* The signatures the clients produce: bytes of interest at both ends of r
\* and of s, a filler in between that tells r from s.
ByteSamples == {0, 1, 26, 27, 28, 29, 255}

Part(first, fill, last) ==
    [i \in 1..PART_LENGTH |->
        IF i = 1 THEN first ELSE IF i = PART_LENGTH THEN last ELSE fill]

Signatures ==
    {[v |-> v, r |-> Part(rf, 171, rl), s |-> Part(sf, 205, sl)] :
        v \in ByteSamples, rf \in ByteSamples, rl \in {17, 27},
        sf \in {34, 28}, sl \in ByteSamples}

\* what a client sends for the signature: its bytes in the client's layout,
\* as hexadecimal digits of the client's case
Encode(sg, layout, upper) ==
    LET bytes == IF layout = "rsv" THEN sg.r \o sg.s \o <<sg.v>>
                 ELSE <<sg.v>> \o sg.r \o sg.s
        lower == BufferToHex(bytes)
    IN  IF ~upper THEN lower
        ELSE [i \in 1..Len(lower) |->
                 IF i <= 2 THEN lower[i] ELSE UpperHexDigits[HexVal(lower[i]) + 1]]

\* personalSignAsync: the client replies to personal_sign with signature.result
SignatureReply(sg, layout, upper) ==
    /\ signing = <<>>
    /\ signing' = <<[signature |-> sg, layout |-> layout,
                     result |-> Encode(sg, layout, upper), parsed |-> <<>>]>>
    /\ UNCHANGED <<trackerVars, priceVars, lookup>>

\* return parseSignatureHex(signature.result)
ParseReply ==
    /\ signing # <<>>
    /\ signing[1].parsed = <<>>
    /\ signing' = <<[signing[1] EXCEPT !.parsed = <<ParseSignatureHex(signing[1].result)>>]>>
    /\ UNCHANGED <<trackerVars, priceVars, lookup>>

SigNext ==
    \/ \E sg \in Signatures : \E layout \in {"rsv", "vrs"} : \E upper \in BOOLEAN :
          SignatureReply(sg, layout, upper)
    \/ ParseReply

-----------------------------------------------------------------------------
(* findAsset, wyvern.ts:207-259 *)

\* String.prototype.toLowerCase on the addresses of the model
ToLowerCase(str) ==
    CASE str = "0xAcC0" -> "0xacc0"
      [] str = "0xBeeF" -> "0xbeef"
      [] str = "0xBEEF" -> "0xbeef"
      [] OTHER -> str

OwnerAnswers == {"0xAcC0", "0xacc0", "0xBEEF", "0xbeef", "0xdead", "0x"}

\* Balances, as their decimal digits.  1000000000000000000 (wyvern.ts:250, 252)
ONE_TOKEN == <<1, 0,0,0, 0,0,0, 0,0,0, 0,0,0, 0,0,0, 0,0,0>>

CountAnswers ==
    {<<0>>, <<1>>, ONE_TOKEN, [i \in 1..19 |-> IF i = 1 THEN 5 ELSE 0],
     [i \in 1..18 |-> 9 - 8 * (i % 2)]}

\* a >= b, for numbers given by their digits without leading zeros
RECURSIVE DigitsAtLeast(_, _)
DigitsAtLeast(a, b) ==
    IF Len(a) # Len(b) THEN Len(a) > Len(b)
    ELSE IF a = <<>> THEN TRUE
    ELSE IF Head(a) # Head(b) THEN Head(a) > Head(b)
    ELSE DigitsAtLeast(Tail(a), Tail(b))

Resolved(value) == <<[settled |-> "resolved", value |-> value]>>
Rejected == <<[settled |-> "rejected", value |-> ""]>>

\* wyvern.ts:239-258, from the locals owner, myCount and proxyCount
Classify(l) ==
    IF l.owner # <<>>
    THEN IF l.proxy # <<>> /\ ToLowerCase(l.owner[1]) = ToLowerCase(l.proxy[1])
         THEN "proxy"
         ELSE IF ToLowerCase(l.owner[1]) = ToLowerCase(l.account) THEN "account"
         ELSE IF l.owner[1] = "0x" THEN "unknown"
         ELSE "other"
    ELSE IF l.myCount # <<>> /\ l.proxyCount # <<>>
         THEN IF DigitsAtLeast(l.proxyCount[1], ONE_TOKEN) THEN "proxy"
              ELSE IF DigitsAtLeast(l.myCount[1], ONE_TOKEN) THEN "account"
              ELSE "other"
         ELSE "unknown"

Finish(l) == [l EXCEPT !.pc = "done", !.outcome = Resolved(Classify(l))]

\* wyvern.ts:224-238, up to the next await: with countOf, the proxy's balance
\* is queried when there is a proxy and is 0 otherwise, then the account's
FromCountOf(l) ==
    IF ~l.schema.countOf THEN Finish(l)
    ELSE IF l.proxy # <<>> THEN [l EXCEPT !.pc = "proxyCount"]
    ELSE [l EXCEPT !.proxyCount = <<<<0>>>>, !.pc = "myCount"]

\* wyvern.ts:212-221, up to the first await: with ownerOf and every input of
\* its ABI given a value, the owner is queried
FindAsset(schema, proxy) ==
    /\ lookup = <<>>
    /\ LET l == [schema |-> schema, account |-> "0xAcC0", proxy |-> proxy,
                 pc |-> "start", owner |-> <<>>, proxyCount |-> <<>>,
                 myCount |-> <<>>, outcome |-> <<>>]
       IN  lookup' = <<IF schema.ownerOf /\ schema.inputsHaveValues
                       THEN [l EXCEPT !.pc = "ownerOf"]
                       ELSE FromCountOf(l)>>
    /\ UNCHANGED <<trackerVars, priceVars, signing>>

\* owner = await promisify(...); owner = owner.toLowerCase()
OwnerReply(res) ==
    /\ lookup # <<>>
    /\ lookup[1].pc = "ownerOf"
    /\ Promisify(FALSE, res).settled = "resolved"
    /\ lookup' = <<FromCountOf([lookup[1] EXCEPT
                       !.owner = <<ToLowerCase(Promisify(FALSE, res).value)>>])>>
    /\ UNCHANGED <<trackerVars, priceVars, signing>>

\* proxyCount = await promisify(...); proxyCount = proxyCount.toNumber()
ProxyCountReply(res) ==
    /\ lookup # <<>>
    /\ lookup[1].pc = "proxyCount"
    /\ Promisify(FALSE, res).settled = "resolved"
    /\ lookup' = <<[lookup[1] EXCEPT !.proxyCount = <<Promisify(FALSE, res).value>>,
                                     !.pc = "myCount"]>>
    /\ UNCHANGED <<trackerVars, priceVars, signing>>

\* myCount = await promisify(...); myCount = myCount.toNumber()
MyCountReply(res) ==
    /\ lookup # <<>>
    /\ lookup[1].pc = "myCount"
    /\ Promisify(FALSE, res).settled = "resolved"
    /\ lookup' = <<Finish([lookup[1] EXCEPT !.myCount = <<Promisify(FALSE, res).value>>])>>
    /\ UNCHANGED <<trackerVars, priceVars, signing>>

\* a contract call is answered with an error: the promise made by promisify
\* rejects, the await throws and nothing in findAsset catches it
OwnerError ==
    /\ lookup # <<>>
    /\ lookup[1].pc = "ownerOf"
    /\ Promisify(TRUE, "").settled = "rejected"
    /\ lookup' = <<[lookup[1] EXCEPT !.pc = "done", !.outcome = Rejected]>>
    /\ UNCHANGED <<trackerVars, priceVars, signing>>

ProxyCountError ==
    /\ lookup # <<>>
    /\ lookup[1].pc = "proxyCount"
    /\ Promisify(TRUE, <<>>).settled = "rejected"
    /\ lookup' = <<[lookup[1] EXCEPT !.pc = "done", !.outcome = Rejected]>>
    /\ UNCHANGED <<trackerVars, priceVars, signing>>

MyCountError ==
    /\ lookup # <<>>
    /\ lookup[1].pc = "myCount"
    /\ Promisify(TRUE, <<>>).settled = "rejected"
    /\ lookup' = <<[lookup[1] EXCEPT !.pc = "done", !.outcome = Rejected]>>
    /\ UNCHANGED <<trackerVars, priceVars, signing>>

Schemas == [ownerOf : BOOLEAN, inputsHaveValues : BOOLEAN, countOf : BOOLEAN]

AssetNext ==
    \/ \E schema \in Schemas : \E proxy \in {<<>>, <<"0xBeeF">>} :
          FindAsset(schema, proxy)
    \/ \E owner \in OwnerAnswers : OwnerReply(owner)
    \/ OwnerError
    \/ \E n \in CountAnswers : ProxyCountReply(n)
    \/ ProxyCountError
    \/ \E n \in CountAnswers : MyCountReply(n)
    \/ MyCountError

-----------------------------------------------------------------------------
(* Specifications: one per component, the other components standing idle *)

SigIdle == signing = <<>>
AssetIdle == lookup = <<>>

Init == TrackerInit /\ PriceIdle /\ SigIdle /\ AssetIdle

Next == TrackerNext

Spec == Init /\ [][Next]_vars

NextReliable == TrackerNextReliable

LiveSpec == Init /\ [][NextReliable]_vars /\ Fairness

PricingInit == TrackerInit /\ PriceInit /\ SigIdle /\ AssetIdle

PriceSpec == PricingInit /\ [][PriceNext]_vars

SigSpec == Init /\ [][SigNext]_vars

AssetSpec == Init /\ [][AssetNext]_vars

-----------------------------------------------------------------------------
(* Properties of the transaction confirmation tracker *)

Registered(c) == c < nextCb
Invoked(c) == notified[c] > 0
Settled(c) == promise[c] \in {"resolved", "rejected"}
PassCallbacks(pass) == {pass.calls[k].cb : k \in 1..Len(pass.calls)}

\* callbacks registered for h and not yet invoked, and the k-th of them in
\* registration order (identities are handed out in registration order)
Waiting(h) == {c \in CallbackIds : Registered(c) /\ reg[c].hash = h /\ ~Invoked(c)}
Kth(w, k) == CHOOSE c \in w : Cardinality({d \in w : d < c}) = k - 1

\* the notions of the claims: a status whose value is one; a receipt that
\* reports a failure; a transaction reported in a block
StatusIsOne(status) == status \in {StatusNum(1), StatusStr(<<"0","x","1">>)}
ReportsFailure(receipt) == receipt # NoReceipt /\ ~StatusIsOne(receipt[1].status)
ReportedIncluded(seen) ==
    /\ seen # <<>>
    /\ seen[1] # NoTx
    /\ seen[1][1].blockHash # <<>>
    /\ seen[1][1].blockHash[1] # NULL_BLOCK_HASH

\* C1: every step that invokes a callback is one whole notification pass for
\* one hash: it invokes every callback registered for that hash and not yet
\* invoked, once each, in registration order, all with the same status; it
\* is the step that delivers the receipt, registers nothing and removes the
\* hash's entry; and no callback is ever invoked twice.
C1_SinglePassInOrder ==
    /\ [](\A c \in CallbackIds : notified[c] <= 1)
    /\ [][(notified' # notified \/ lastPass' # lastPass) =>
            \E h \in Hashes : \E st \in BOOLEAN :
                LET w == Waiting(h)
                    n == Cardinality(w)
                IN  /\ n > 0
                    /\ Len(lastPass'.calls) = n
                    /\ \A k \in 1..n :
                          /\ lastPass'.calls[k].cb = Kth(w, k)
                          /\ lastPass'.calls[k].status = st
                    /\ notified' = [c \in CallbackIds |->
                                       IF c \in w THEN notified[c] + 1 ELSE notified[c]]
                    /\ nextCb' = nextCb
                    /\ h \in DOMAIN txCallbacks
                    /\ h \notin DOMAIN txCallbacks'
                    /\ pollers'[h]["getTransactionReceipt"]
                          = pollers[h]["getTransactionReceipt"] - 1]_vars

\* two callbacks registered for one hash have been invoked in one pass
C1_Witness ==
    /\ Len(lastPass.calls) >= 2
    /\ \A c \in PassCallbacks(lastPass) : notified[c] = 1

\* C2: every registered callback is eventually invoked
C2_EventuallyNotified ==
    \A c \in CallbackIds : Registered(c) ~> Invoked(c)

\* a callback registered between the getTransaction reply and the
\* getTransactionReceipt reply has been invoked
C2_Witness ==
    \E c \in CallbackIds : Invoked(c) /\ reg[c].at = "getTransactionReceipt"

\* C3: a promise is settled exactly when its callback has been invoked, and
\* never changes once settled; the step that settles it is a notification
\* pass for its hash, after the transaction was reported included, and it
\* rejects the promise exactly when the receipt fetched reports a failure and
\* resolves it exactly when the receipt is absent or has status one.
C3_SettlesByReceipt ==
    /\ [](\A c \in CallbackIds : Settled(c) <=> Invoked(c))
    /\ [][\A c \in CallbackIds :
            /\ Settled(c) => promise'[c] = promise[c]
            /\ (~Settled(c) /\ (Settled(c)' \/ notified'[c] # notified[c]))
                  => /\ c \in PassCallbacks(lastPass')
                     /\ ReportedIncluded(txSeen[reg[c].hash])
                     /\ promise'[c] = "rejected" <=> ReportsFailure(lastPass'.receipt)
                     /\ promise'[c] = "resolved" <=> ~ReportsFailure(lastPass'.receipt)]_vars

\* a promise was rejected on a receipt that reports a failure, after another
\* was resolved
C3_Witness ==
    /\ \E c \in PassCallbacks(lastPass) : promise[c] = "rejected"
    /\ ReportsFailure(lastPass.receipt)
    /\ \E c \in CallbackIds : promise[c] = "resolved"

\* C4: at most one poll loop per hash; a registration for a tracked hash only
\* appends to its list and starts no poller; a poller is started only for a
\* hash with no entry and no poller.
C4_OnePollerPerHash ==
    /\ [](\A h \in Hashes : NumPollers(h) <= 1)
    /\ [][\A h \in Hashes :
            /\ (nextCb' # nextCb /\ reg'[nextCb].hash = h /\ h \in DOMAIN txCallbacks)
                  => /\ txCallbacks' = [txCallbacks EXCEPT ![h] = Append(@, nextCb)]
                     /\ pollers' = pollers
            /\ NumPollers(h)' > NumPollers(h)
                  => /\ h \notin DOMAIN txCallbacks
                     /\ NumPollers(h) = 0
                     /\ h \in DOMAIN txCallbacks']_vars

\* a second callback was appended to the entry of a hash whose poller was
\* waiting on its timer, and the hash still has its one poller
C4_Witness ==
    \E h \in Hashes :
        /\ h \in DOMAIN txCallbacks
        /\ Len(txCallbacks[h]) >= 2
        /\ reg[txCallbacks[h][2]].at = "timer"
        /\ NumPollers(h) = 1

\* C9: a receipt is queried, a callback invoked and a promise settled only
\* after a getTransaction reply for the hash reported a block hash that is
\* present and not all-zero; a reply that does not leaves the callback list,
\* the promises and the invocation history alone and only arms the timer.
C9_NothingBeforeInclusion ==
    /\ [](\A h \in Hashes :
            pollers[h]["getTransactionReceipt"] > 0 => ReportedIncluded(txSeen[h]))
    /\ [][/\ \A c \in CallbackIds :
                (notified'[c] # notified[c] \/ (Settled(c)' /\ ~Settled(c)))
                   => ReportedIncluded(txSeen[reg[c].hash])
          /\ \A h \in Hashes :
                (/\ pollers'[h]["getTransaction"] < pollers[h]["getTransaction"]
                 /\ NumPollers(h)' = NumPollers(h)
                 /\ ~ReportedIncluded(txSeen'[h]))
                  => /\ pollers'[h]["timer"] = pollers[h]["timer"] + 1
                     /\ pollers'[h]["getTransactionReceipt"]
                           = pollers[h]["getTransactionReceipt"]
                     /\ UNCHANGED <<txCallbacks, promise, notified, lastPass>>]_vars

\* a poller that was told of an all-zero block hash waits on its timer, its
\* callbacks still listed and pending, and a callback has since been invoked
\* for a transaction reported in a block
C9_Witness ==
    /\ \E h \in Hashes :
          /\ pollers[h]["timer"] = 1
          /\ txSeen[h] = <<TxWith(<<NULL_BLOCK_HASH>>)>>
          /\ h \in DOMAIN txCallbacks
          /\ \A k \in 1..Len(txCallbacks[h]) : promise[txCallbacks[h][k]] = "pending"
    /\ \E c \in CallbackIds : Invoked(c)

\* C10: every hash with an entry in txCallbacks has a live poller
C10_EntryHasLivePoller ==
    \A h \in DOMAIN txCallbacks : Live(h)

-----------------------------------------------------------------------------
(* Properties of the current-price estimator *)

\* the smallest integer >= a / b, for b > 0
CeilDiv(a, b) == IF a >= 0 THEN (a + b - 1) \div b ELSE 0 - ((0 - a) \div b)

\* C5: with shouldRoundUp, estimateCurrentPrice returns basePrice for a
\* FixedPrice order, and for a DutchAuction order the smallest integer >=
\* basePrice - extra*(now - listingTime)/(expirationTime - listingTime) when
\* selling and >= basePrice + that quotient when buying, whatever now is.
C5_ExactCeiling ==
    \A k \in 1..Len(estimate) :
        LET call == estimate[k]
            ticks == Pow10(CLOCK_DECIMALS)
            \* (now - listingTime) and (expirationTime - listingTime), in ticks
            elapsed == call.dateNow - ticks * call.secondsToBacktrack
                          - ticks * order.listingTime
            window == ticks * (order.expirationTime - order.listingTime)
        IN  call.shouldRoundUp =>
              /\ call.price.e = 0
              /\ order.saleKind = "FixedPrice" => call.price.m = order.basePrice
              /\ (order.saleKind = "DutchAuction" /\ order.side = "Sell") =>
                    call.price.m =
                        CeilDiv(order.basePrice * window - order.extra * elapsed, window)
              /\ (order.saleKind = "DutchAuction" /\ order.side = "Buy") =>
                    call.price.m =
                        CeilDiv(order.basePrice * window + order.extra * elapsed, window)

-----------------------------------------------------------------------------
(* Properties of the signature parser *)

Calls == {k \in 1..Len(signing) : signing[k].parsed # <<>>}
Result(k) == signing[k].parsed[1]
Expected(sg) == Parsed(sg.v, BufferToHex(sg.r), BufferToHex(sg.s))

\* C6: a signature with v in {27, 28} is returned unchanged from its r,s,v
\* encoding and from its v,r,s encoding.
C6_BothLayoutsRoundTrip ==
    \A k \in Calls :
        signing[k].signature.v \in {27, 28}
            => Result(k) = Expected(signing[k].signature)

\* What does hold: a signature with v in {27, 28} is returned unchanged from
\* its r,s,v encoding, and from its v,r,s encoding when the last byte of s is
\* none of 0, 1, 27, 28 (the r,s,v reading is tried first and takes that byte
\* for v).
RoundTripUnlessAmbiguous ==
    \A k \in Calls :
        LET sg == signing[k].signature
        IN  (/\ sg.v \in {27, 28}
             /\ signing[k].layout = "vrs" => sg.s[PART_LENGTH] \notin {0, 1, 27, 28})
                => Result(k) = Expected(sg)

\* C7: the parser returns a signature whose v is 27 or 28, or throws
\* 'Invalid signature'; it returns the r,s,v reading (v the last byte, plus 27
\* when below 27) when that v is 27 or 28, else the v,r,s reading (v the first
\* byte, plus 27 when below 27) when that v is 27 or 28, and throws exactly
\* when neither is.
C7_ValidVOrThrows ==
    \A k \in Calls :
        LET bytes == ToBuffer(signing[k].result)
            raise(b) == IF b < 27 THEN b + 27 ELSE b
            lastV == raise(bytes[SIGNATURE_LENGTH])
            firstV == raise(bytes[1])
            part(i) == BufferToHex(SubSeq(bytes, i, i + PART_LENGTH - 1))
        IN  /\ Len(bytes) = SIGNATURE_LENGTH
            /\ Result(k).error \in {"", "Invalid signature"}
            /\ Result(k).error = "" => Result(k).v \in {27, 28}
            /\ lastV \in {27, 28} => Result(k) = Parsed(lastV, part(1), part(PART_LENGTH + 1))
            /\ (lastV \notin {27, 28} /\ firstV \in {27, 28})
                  => Result(k) = Parsed(firstV, part(2), part(PART_LENGTH + 2))
            /\ Result(k).error = "Invalid signature"
                  <=> (lastV \notin {27, 28} /\ firstV \notin {27, 28})

\* one input was refused, and is one that neither reading accepts
C7_Witness ==
    \E k \in Calls :
        /\ Result(k).error = "Invalid signature"
        /\ signing[k].signature.v = 29
        /\ signing[k].layout = "rsv"
        /\ signing[k].signature.r[1] = 255

-----------------------------------------------------------------------------
(* Properties of the asset ownership lookup *)

\* C8: findAsset never rejects: whatever the schema, the proxy and the
\* replies of the chain client, its promise resolves to 'proxy', 'account',
\* 'unknown' or 'other', and to 'unknown' when no query was made.
C8_NeverRejects ==
    \A k \in 1..Len(lookup) :
        lookup[k].outcome # <<>> =>
            /\ lookup[k].outcome[1].settled = "resolved"
            /\ lookup[k].outcome[1].value \in {"proxy", "account", "unknown", "other"}
            /\ (lookup[k].owner = <<>> /\ lookup[k].myCount = <<>>)
                  => lookup[k].outcome[1].value = "unknown"

====
